---- MODULE Spec2Model ----
(***************************************************************************)
(* doit-graph: GraphCmd (src/doit_graph.py).  One run of the "graph"      *)
(* command: _execute seeds a FIFO work queue, expands each task once,     *)
(* accumulates nodes and deduplicated edges, and writes the graph (or its *)
(* reverse) to a dot file.                                                *)
(*                                                                        *)
(* Text is modelled structurally: a file name is a sequence of character  *)
(* codes, a path a sequence of components, an edge label the sequence of  *)
(* its "\n"-separated lines.                                              *)
(***************************************************************************)
EXTENDS Integers, Sequences, FiniteSets, TLC

VARIABLES
    task_list,   \* self.task_list: the task records, in registry order
    subtasks,    \* self.subtasks
    pos_args,    \* the pos_args parameter of _execute: <<>> for None, <<roots>>
    reverse,     \* the reverse parameter of _execute, as read at line 181
    outfile,     \* the outfile parameter of _execute, as read at line 177
    nodes,       \* self.graph: node name -> attributes
    edges,       \* self.graph: the edge objects, in creation order
    rankdir,     \* self.graph.graph_attr["rankdir"]
    seen,        \* self._edges
    processed,   \* the processed set of _execute
    to_process,  \* the work queue of _execute
    pc,          \* position of the run
    error,       \* the exception that ended the run, "" if none
    stdout,      \* the lines printed
    written,     \* the dot file written
    connecting   \* the last call of get_connecting_files and its result

vars == <<task_list, subtasks, pos_args, reverse, outfile, nodes, edges, rankdir, seen, processed,
          to_process, pc, error, stdout, written, connecting>>

-----------------------------------------------------------------------------
(* Bounds *)

\* longest list of root task names given on the command line
MaxRoots == 2
\* most entries of a file_dep / targets collection in the file-link runs
MaxFiles == 2
\* how often the repeated dependency entry of the "repeat" registry occurs
MaxRepeat == 2

-----------------------------------------------------------------------------
(* Values *)

None == "None"
KeyError == "KeyError"
TypeError == "TypeError"

\* sequences over S of length at most n
SeqUpTo(S, n) == UNION {[1..k -> S] : k \in 0..n}

Range(s) == {s[i] : i \in DOMAIN s}

\* Python truthiness of an optional string
Truthy(s) == s # None /\ s # ""

-----------------------------------------------------------------------------
(* File names and paths *)

\* the file names used: "a", "ab", "b" as character codes
fa == <<97>>
fab == <<97, 98>>
fb == <<98>>
\* a directory component, "d"
dd == <<100>>
\* the two characters backslash, n that separate the lines of a label
sep == <<92, 110>>

\* Python's str ordering: lexicographic by code point, a proper prefix first
RECURSIVE StrLess(_, _)
StrLess(s, t) ==
    IF t = <<>> THEN FALSE
    ELSE IF s = <<>> THEN TRUE
    ELSE IF s[1] < t[1] THEN TRUE
    ELSE IF s[1] > t[1] THEN FALSE
    ELSE StrLess(Tail(s), Tail(t))

\* Path(str(f)).name: the final component of a path
Basename(p) == IF p = <<>> THEN <<>> ELSE p[Len(p)]

\* {Path(str(f)).name for f in collection}
Basenames(collection) == {Basename(collection[i]) : i \in DOMAIN collection}

\* sorted(S) of a set of strings
RECURSIVE sorted(_)
sorted(S) ==
    IF S = {} THEN <<>>
    ELSE LET m == CHOOSE x \in S : \A y \in S : y = x \/ StrLess(x, y)
         IN  <<m>> \o sorted(S \ {m})

-----------------------------------------------------------------------------
(* The task registry *)

\* control.tasks: task name -> task
tasks ==
    [n \in {task_list[i].name : i \in DOMAIN task_list} |->
        (CHOOSE t \in Range(task_list) : t.name = n)]

\* control.tasks.keys(), in insertion order
task_keys == [i \in DOMAIN task_list |-> task_list[i].name]

\* the tasks of the registries, in registry order
Names == <<"A", "B", "C", "D">>
\* a task name that no registry holds
Absent == "Z"

Deps(s, d) == [setup_tasks |-> s, task_dep |-> d]
Files(f, t) == [file_dep |-> f, targets |-> t]
PerTask(a, b, c, d) == ("A" :> a) @@ ("B" :> b) @@ ("C" :> c) @@ ("D" :> d)

NoDeps == Deps(<<>>, <<>>)
Repeated(n) == [i \in 1..MaxRepeat |-> n]

\* dependency shapes: unconnected, diamond, cycle, self-dependency and repeated
\* entries, setup and hard dependency on one target, a group depending on its
\* sub-tasks, sub-task to sub-task, a reference to an absent task
Shapes == {
    PerTask(NoDeps, NoDeps, NoDeps, NoDeps),
    PerTask(Deps(<<>>, <<"B", "C">>), Deps(<<>>, <<"D">>), Deps(<<>>, <<"D">>), NoDeps),
    PerTask(Deps(<<>>, <<"B">>), Deps(<<>>, <<"C">>), Deps(<<>>, <<"A">>), Deps(<<"A">>, <<>>)),
    PerTask(Deps(<<>>, <<"A">> \o Repeated("B")), NoDeps, Deps(<<"C">>, <<>>),
            Deps(<<>>, Repeated("C"))),
    PerTask(Deps(<<"B">>, <<"B", "C">>), NoDeps, Deps(<<"D">>, <<>>), Deps(<<>>, <<"B">>)),
    PerTask(NoDeps, Deps(<<>>, <<"C", "D">>), Deps(<<>>, <<"A">>), Deps(<<"A">>, <<>>)),
    PerTask(Deps(<<"C">>, <<"D">>), NoDeps, Deps(<<>>, <<"D">>), Deps(<<"B">>, <<>>)),
    PerTask(Deps(<<>>, <<"B", Absent>>), NoDeps, NoDeps, NoDeps) }

\* subtask_of per task; a parent is always a top-level task (doit creates the
\* group task of a generator as a top-level task)
Groupings == {
    PerTask(None, None, None, None),
    PerTask(None, None, "B", "B"),
    PerTask(None, None, None, "C"),
    PerTask(None, "A", None, "C") }

NoFiles == Files(<<>>, <<>>)
\* file_dep and targets per task, each in the iteration order of its collection
Layouts == {
    PerTask(NoFiles, NoFiles, NoFiles, NoFiles),
    LET all == Files(<<<<dd, fb>>, <<fa>>>>, <<<<fa>>, <<fb>>>>)
    IN  PerTask(all, all, all, all),
    PerTask(Files(<<<<fb>>, <<fa>>>>, <<<<fa>>>>),
            Files(<<<<fa>>, <<fb>>>>, <<<<dd, fb>>>>),
            Files(<<<<fb>>>>, <<<<dd, fa>>>>),
            Files(<<<<fa>>>>, <<<<fab>>, <<fb>>, <<dd, fa>>>>)) }

\* a doit Task
Task(name, deps, subtask_of, has_subtask, files) ==
    [name |-> name, subtask_of |-> subtask_of, has_subtask |-> has_subtask,
     setup_tasks |-> deps.setup_tasks, task_dep |-> deps.task_dep,
     file_dep |-> files.file_dep, targets |-> files.targets]

\* the sub-tasks of n under a grouping, in registry order
RECURSIVE SubtasksFrom(_, _, _)
SubtasksFrom(grouping, n, i) ==
    IF i > Len(Names) THEN <<>>
    ELSE (IF grouping[Names[i]] = n THEN <<Names[i]>> ELSE <<>>)
         \o SubtasksFrom(grouping, n, i + 1)

\* the task list of a shape, a grouping and a file layout.  As doit's loader
\* does for the tasks of a generator, the group task has has_subtask set and
\* each of its sub-tasks appended to its task_dep.
Registry(shape, grouping, layout) ==
    [i \in DOMAIN Names |->
        LET n == Names[i]
            subs == SubtasksFrom(grouping, n, 1)
        IN  Task(n, Deps(shape[n].setup_tasks, shape[n].task_dep \o subs),
                 grouping[n], subs # <<>>, layout[n])]

Registries ==
    {Registry(s, g, l) : s \in Shapes, g \in Groupings, l \in Layouts}

-----------------------------------------------------------------------------
(* GraphCmd.node: the graph node that represents a task *)

\* (mutant) a sub-task is never collapsed into its group
node_uncollapsed(task_name) == task_name

node(task_name) ==
    IF subtasks THEN task_name
    ELSE IF task_name \notin DOMAIN tasks THEN KeyError
    ELSE IF Truthy(tasks[task_name].subtask_of) THEN tasks[task_name].subtask_of
    ELSE task_name

-----------------------------------------------------------------------------
(* GraphCmd.get_connecting_files *)

\* (mutant) every file dependency of the source counts as connecting
connecting_all(src_file_deps, sink_targets) == src_file_deps

\* line 125: src_file_deps & sink_targets
connecting_set(src_file_deps, sink_targets) == src_file_deps \cap sink_targets

\* file_dep of src that are in targets of sink, by basename, sorted
get_connecting_files(src_task_name, sink_task_name) ==
    IF src_task_name \notin DOMAIN tasks \/ sink_task_name \notin DOMAIN tasks
    THEN <<>>
    ELSE LET src_task == tasks[src_task_name]
             sink_task == tasks[sink_task_name]
             src_file_deps ==
                 IF "file_dep" \in DOMAIN src_task /\ src_task.file_dep # <<>>
                 THEN Basenames(src_task.file_dep) ELSE {}
             sink_targets ==
                 IF "targets" \in DOMAIN sink_task /\ sink_task.targets # <<>>
                 THEN Basenames(sink_task.targets) ELSE {}
         IN  sorted(connecting_set(src_file_deps, sink_targets))

\* "\\n".join(lines)
RECURSIVE join(_)
join(lines) ==
    IF lines = <<>> THEN <<>>
    ELSE IF Len(lines) = 1 THEN lines[1]
    ELSE lines[1] \o sep \o join(Tail(lines))

\* the label _execute passes to add_edge: the joined names, "" for None
edge_label(connecting_files) ==
    IF connecting_files # <<>> THEN join(connecting_files) ELSE <<>>

-----------------------------------------------------------------------------
(* The graph: pygraphviz.AGraph(strict=False, directed=True).  A node is its   *)
(* name with the attribute peripheries ("" when unset); an edge is a record   *)
(* of source, sink, arrowhead and label (the empty string when unset).        *)

\* AGraph.add_node(n, peripheries=...): creates the node if it is new, then
\* updates the attributes given; peripheries "" stands for no attribute given
add_node(ns, n, peripheries) ==
    IF n \in DOMAIN ns
    THEN IF peripheries # "" THEN [ns EXCEPT ![n].peripheries = peripheries] ELSE ns
    ELSE ns @@ (n :> [peripheries |-> peripheries])

\* AGraph.get_edge: the index of the first edge from source to sink
get_edge(es, source, sink) ==
    CHOOSE i \in DOMAIN es :
        /\ es[i].source = source /\ es[i].sink = sink
        /\ \A j \in 1..(i - 1) : ~(es[j].source = source /\ es[j].sink = sink)

\* (mutant) the seen pairs are not consulted
edge_never_exists(G, edge_key) == FALSE

\* whether add_edge takes the branch of an edge that already exists
edge_exists(G, edge_key) == edge_key \in G.seen

\* (mutant) self-loops are drawn
drawn_always(source, sink) == TRUE

\* whether add_edge draws anything for a resolved pair
drawn(source, sink) == source # sink

\* (mutant) a later label is put in front of the label of the edge
prepend_label(existing_label, label) ==
    IF existing_label # <<>> THEN label \o sep \o existing_label ELSE label

\* (mutant) a later label takes the place of the label of the edge
replace_label(existing_label, label) == label

\* lines 93-96: the label of an existing edge after a further label arrives
append_label(existing_label, label) ==
    IF existing_label # <<>> THEN existing_label \o sep \o label ELSE label

\* (mutant) the pair of a new edge is not recorded
forget_seen(pairs, edge_key) == pairs

\* line 99: self._edges.add(edge_key)
record_seen(pairs, edge_key) == pairs \cup {edge_key}

\* GraphCmd.add_edge on G = [nodes, edges, seen, error]
add_edge(G, src_name, sink_name, arrowhead, label) ==
    LET source == node(src_name)
        sink == node(sink_name)
        edge_key == <<source, sink>>
    IN  IF source = KeyError \/ sink = KeyError THEN [G EXCEPT !.error = KeyError]
        ELSE IF ~drawn(source, sink) THEN G
        ELSE IF edge_exists(G, edge_key)
        THEN IF label # <<>>
             THEN LET i == get_edge(G.edges, source, sink)
                      existing_label == G.edges[i].label
                      new_label == append_label(existing_label, label)
                  IN  [G EXCEPT !.edges[i].label = new_label]
             ELSE G
        ELSE [G EXCEPT
                !.seen = record_seen(@, edge_key),
                !.edges = Append(@, [source |-> source, sink |-> sink,
                                     arrowhead |-> arrowhead, label |-> label]),
                !.nodes = add_node(add_node(@, source, ""), sink, "")]

-----------------------------------------------------------------------------
(* GraphCmd._execute *)

\* (mutant) the first element is read but left in the queue
peek_left(q) == q

\* deque.popleft: the queue after taking its first element
popleft(q) == Tail(q)

\* the graph state the loop body works on
GraphState == [nodes |-> nodes, edges |-> edges, seen |-> seen,
               queue |-> popleft(to_process), error |-> ""]

\* processed.add(task.name)
mark_processed(p, name) == p \cup {name}

\* (mutant) the loop never skips a task
never_skipped(name) == FALSE

\* whether the loop skips the task popped
already_processed(name) == name \in processed

\* one dependency entry of the task being expanded: its label, its edge, and
\* the sink enqueued unless processed (the task itself is processed by now).
\* The graph state, the entry, the connecting files and the label are each
\* evaluated once, as the values of bound identifiers.
add_dep(G0, task_name, entry, arrowhead) ==
    LET enqueue(H, sink_name) ==
            IF H.error # "" THEN H
            ELSE IF sink_name \notin mark_processed(processed, task_name)
            THEN [H EXCEPT !.queue = Append(@, sink_name)]
            ELSE H
        with_label(G, sink_name, label) ==
            CHOOSE R \in {enqueue(H, sink_name) :
                            H \in {add_edge(G, task_name, sink_name, arrowhead, label)}} : TRUE
        with_files(G, sink_name, connecting_files) ==
            CHOOSE R \in {with_label(G, sink_name, label) :
                            label \in {edge_label(connecting_files)}} : TRUE
        body(G, sink_name) ==
            IF G.error # "" THEN G
            ELSE CHOOSE R \in {with_files(G, sink_name, connecting_files) :
                     connecting_files \in {get_connecting_files(task_name, sink_name)}} : TRUE
    IN  CHOOSE R \in {body(G, sink_name) : G \in {G0}, sink_name \in {entry}} : TRUE

\* for sink_name in entries: ..., from position i on
RECURSIVE add_deps(_, _, _, _, _)
add_deps(G, task_name, entries, i, arrowhead) ==
    IF i > Len(entries) THEN G
    ELSE add_deps(add_dep(G, task_name, entries[i], arrowhead),
                  task_name, entries, i + 1, arrowhead)

\* the arrowhead of a setup_tasks entry and of a task_dep entry
setup_arrowhead == "empty"
dep_arrowhead == ""

\* whether the task popped gets a node of its own
shown(task) == (~Truthy(task.subtask_of)) \/ subtasks

\* the loop body for a task that is not yet processed
expand(task) ==
    LET node_attrs == IF task.has_subtask THEN "2" ELSE ""
        G0 == IF shown(task)
              THEN [GraphState EXCEPT !.nodes = add_node(@, task.name, node_attrs)]
              ELSE GraphState
        G1 == add_deps(G0, task.name, task.setup_tasks, 1, setup_arrowhead)
    IN  add_deps(G1, task.name, task.task_dep, 1, dep_arrowhead)

\* the choices of pos_args: <<>> for None, <<roots>> for a list of roots
RootNames == {"A", "B", "C", "D", Absent}
PosArgs == {<<>>} \cup {<<r>> : r \in SeqUpTo(RootNames, MaxRoots)}

\* (mutant) an empty root list seeds an empty queue
seed_unless_none(pa) == IF pa # <<>> THEN pa[1] ELSE task_keys

\* lines 145-148: the roots given, or every task of the registry when pos_args
\* is None or empty
seed(pa) == IF pa # <<>> /\ pa[1] # <<>> THEN pa[1] ELSE task_keys

\* lines 129-148: fresh sets, the empty graph, the seeded queue
Execute(st, horizontal, pa) ==
    /\ pc = "init"
    /\ subtasks' = st
    /\ pos_args' = pa
    /\ seen' = {}
    /\ nodes' = <<>>
    /\ edges' = <<>>
    /\ rankdir' = IF horizontal THEN "LR" ELSE ""
    /\ processed' = {}
    /\ to_process' = seed(pa)
    /\ pc' = IF to_process' = <<>> THEN "emit" ELSE "loop"
    /\ UNCHANGED <<task_list, reverse, outfile, error, stdout, written, connecting>>

\* (mutant) a name the registry does not hold is dropped and the loop goes on
PopMissingIgnored ==
    /\ pc = "loop"
    /\ Head(to_process) \notin DOMAIN tasks
    /\ to_process' = popleft(to_process)
    /\ pc' = IF to_process' = <<>> THEN "emit" ELSE "loop"
    /\ UNCHANGED <<task_list, subtasks, pos_args, reverse, outfile, nodes, edges, rankdir, seen,
                   processed, error, stdout, written, connecting>>

\* line 151 on a name the registry does not hold
PopMissing ==
    /\ pc = "loop"
    /\ Head(to_process) \notin DOMAIN tasks
    /\ to_process' = popleft(to_process)
    /\ pc' = "failed"
    /\ error' = KeyError
    /\ UNCHANGED <<task_list, subtasks, pos_args, reverse, outfile, nodes, edges, rankdir, seen,
                   processed, stdout, written, connecting>>

\* lines 151-153: a task popped again
Skip ==
    /\ pc = "loop"
    /\ Head(to_process) \in DOMAIN tasks
    /\ already_processed(Head(to_process))
    /\ to_process' = popleft(to_process)
    /\ pc' = IF to_process' = <<>> THEN "emit" ELSE "loop"
    /\ UNCHANGED <<task_list, subtasks, pos_args, reverse, outfile, nodes, edges, rankdir, seen,
                   processed, error, stdout, written, connecting>>

\* lines 151-175: a task expanded
Expand ==
    /\ pc = "loop"
    /\ Head(to_process) \in DOMAIN tasks
    /\ ~already_processed(Head(to_process))
    /\ \E task \in {tasks[Head(to_process)]} :
       \E G \in {expand(task)} :
           /\ processed' = mark_processed(processed, task.name)
           /\ nodes' = G.nodes
           /\ edges' = G.edges
           /\ seen' = G.seen
           /\ error' = G.error
           /\ to_process' = G.queue
           /\ pc' = IF G.error # "" THEN "failed"
                    ELSE IF G.queue = <<>> THEN "emit" ELSE "loop"
    /\ UNCHANGED <<task_list, subtasks, pos_args, reverse, outfile, rankdir, stdout,
                   written, connecting>>

\* AGraph.reverse: a copy of the graph with the same attributes and nodes and
\* every edge from sink to source, with the attributes of the original
graph_reverse(g) ==
    [g EXCEPT !.edges = [i \in DOMAIN g.edges |->
        [g.edges[i] EXCEPT !.source = g.edges[i].sink, !.sink = g.edges[i].source]]]

\* the accumulated graph
graph == [nodes |-> nodes, edges |-> edges, rankdir |-> rankdir]

\* lines 177-179: the outfile when none is given; len(None) raises TypeError
default_outfile(pa) ==
    IF pa = <<>> THEN TypeError
    ELSE (IF Len(pa[1]) = 1 THEN pa[1][1] ELSE "tasks") \o ".dot"

\* (mutant) the graph is written as accumulated, whatever reverse says
to_write_unreversed(rev) == graph

\* lines 181-184: the graph handed to write
to_write(rev) == IF rev THEN graph_reverse(graph) ELSE graph

\* the outfile options tried
Outfiles == {None, "g.dot"}

\* lines 177-179 when pos_args is None and no outfile is given
EmitFail(rev, out) ==
    /\ pc = "emit"
    /\ ~Truthy(out)
    /\ default_outfile(pos_args) = TypeError
    /\ reverse' = rev
    /\ outfile' = out
    /\ pc' = "failed"
    /\ error' = TypeError
    /\ UNCHANGED <<task_list, subtasks, pos_args, nodes, edges, rankdir, seen,
                   processed, to_process, stdout, written, connecting>>

\* lines 177-184: the name derived, the confirmation printed, the file written
EmitWrite(rev, out) ==
    /\ pc = "emit"
    /\ Truthy(out) \/ default_outfile(pos_args) # TypeError
    /\ reverse' = rev
    /\ outfile' = out
    /\ LET name == IF Truthy(out) THEN out ELSE default_outfile(pos_args)
       IN  /\ stdout' = Append(stdout, "Generated file: " \o name)
           /\ written' = Append(written, [outfile |-> name, graph |-> to_write(rev)])
    /\ pc' = "done"
    /\ UNCHANGED <<task_list, subtasks, pos_args, nodes, edges, rankdir, seen,
                   processed, to_process, error, connecting>>

-----------------------------------------------------------------------------
(* A run of the command over the registries *)

Init ==
    /\ task_list \in Registries
    /\ subtasks = FALSE
    /\ pos_args = <<>>
    /\ reverse = FALSE
    /\ outfile = None
    /\ nodes = <<>>
    /\ edges = <<>>
    /\ rankdir = ""
    /\ seen = {}
    /\ processed = {}
    /\ to_process = <<>>
    /\ pc = "init"
    /\ error = ""
    /\ stdout = <<>>
    /\ written = <<>>
    /\ connecting = <<>>

Next ==
    \/ \E st \in BOOLEAN, horizontal \in BOOLEAN, pa \in PosArgs :
           Execute(st, horizontal, pa)
    \/ PopMissing
    \/ Skip
    \/ Expand
    \/ \E rev \in BOOLEAN, out \in Outfiles : EmitFail(rev, out)
    \/ \E rev \in BOOLEAN, out \in Outfiles : EmitWrite(rev, out)

Spec == Init /\ [][Next]_vars

\* the run is sequential code: the loop takes its next step while the queue
\* is not empty
Step == PopMissing \/ Skip \/ Expand
FairSpec == Spec /\ WF_vars(Step)

-----------------------------------------------------------------------------
(* Calls of get_connecting_files over file collections *)

FilePaths == {<<fa>>, <<fab>>, <<fb>>, <<dd, fb>>}

\* a collection in some iteration order
Collections == SeqUpTo(FilePaths, MaxFiles)

\* task "A" with the file_dep given and task "B" with the targets given; an
\* argument of None stands for a task without the attribute
FileRegistry(file_dep, targets) ==
    LET a == [name |-> "A", subtask_of |-> None, has_subtask |-> FALSE,
              setup_tasks |-> <<>>, task_dep |-> <<"B">>, targets |-> <<>>]
        b == [name |-> "B", subtask_of |-> None, has_subtask |-> FALSE,
              setup_tasks |-> <<>>, task_dep |-> <<>>, file_dep |-> <<>>]
    IN  << IF file_dep = <<None>> THEN a ELSE ("file_dep" :> file_dep) @@ a,
           IF targets = <<None>> THEN b ELSE ("targets" :> targets) @@ b >>

InitFiles ==
    /\ task_list \in {FileRegistry(f, t) : f \in Collections \cup {<<None>>},
                                            t \in Collections \cup {<<None>>}}
    /\ subtasks = FALSE
    /\ pos_args = <<>>
    /\ reverse = FALSE
    /\ outfile = None
    /\ nodes = <<>>
    /\ edges = <<>>
    /\ rankdir = ""
    /\ seen = {}
    /\ processed = {}
    /\ to_process = <<>>
    /\ pc = "init"
    /\ error = ""
    /\ stdout = <<>>
    /\ written = <<>>
    /\ connecting = <<>>

GetConnectingFiles(src, sink) ==
    /\ connecting' = <<[src |-> src, sink |-> sink,
                        result |-> get_connecting_files(src, sink)]>>
    /\ UNCHANGED <<task_list, subtasks, pos_args, reverse, outfile, nodes, edges, rankdir, seen,
                   processed, to_process, pc, error, stdout, written>>

NextFiles ==
    \E src \in {"A", "B", Absent}, sink \in {"A", "B", Absent} :
        GetConnectingFiles(src, sink)

SpecFiles == InitFiles /\ [][NextFiles]_vars

-----------------------------------------------------------------------------
(* Vocabulary of the properties *)

\* the run has left the traversal loop with the queue empty
Traversed == pc \in {"emit", "done"} \/ (pc = "failed" /\ error = TypeError)

\* the root names of the run
Roots == IF pos_args # <<>> /\ pos_args[1] # <<>> THEN Range(pos_args[1])
         ELSE DOMAIN tasks

WholeGraphMode == pos_args = <<>> \/ pos_args[1] = <<>>

\* the names a task refers to in setup_tasks and task_dep
Entries(t) == Range(tasks[t].setup_tasks) \cup Range(tasks[t].task_dep)

\* the tasks reachable from a set of names through the entries
RECURSIVE ReachableFrom(_)
ReachableFrom(S) ==
    LET more == S \cup UNION {Entries(t) : t \in S \cap DOMAIN tasks}
    IN  IF more = S THEN S ELSE ReachableFrom(more)

\* every name the roots and the tasks refer to is a task of the registry
AllExist ==
    /\ Roots \subseteq DOMAIN tasks
    /\ \A t \in DOMAIN tasks : Entries(t) \subseteq DOMAIN tasks

\* the node that stands for a task of the registry
Resolved(t) ==
    IF ~subtasks /\ tasks[t].subtask_of # None THEN tasks[t].subtask_of ELSE t

IsSubtask(n) == n \in DOMAIN tasks /\ tasks[n].subtask_of # None

\* the relationships of the processed tasks: <<task, kind, position>>
Relationships ==
    UNION {{<<t, "setup", i>> : i \in 1..Len(tasks[t].setup_tasks)}
           \cup {<<t, "dep", i>> : i \in 1..Len(tasks[t].task_dep)} : t \in processed}

Target(r) == IF r[2] = "setup" THEN tasks[r[1]].setup_tasks[r[3]]
             ELSE tasks[r[1]].task_dep[r[3]]

\* the relationships whose two ends exist and resolve to different nodes
DrawnRelationships ==
    {r \in Relationships :
        Target(r) \in DOMAIN tasks /\ Resolved(r[1]) # Resolved(Target(r))}

EdgesFromTo(a, b) == {i \in DOMAIN edges : edges[i].source = a /\ edges[i].sink = b}

\* the tasks of the registry have exactly the entries of the diamond, and no
\* task is collapsed into a group
Diamond ==
    /\ tasks["A"].task_dep = <<"B", "C">> /\ tasks["B"].task_dep = <<"D">>
    /\ tasks["C"].task_dep = <<"D">> /\ tasks["D"].task_dep = <<>>
    /\ \A t \in DOMAIN tasks : tasks[t].setup_tasks = <<>> /\ tasks[t].subtask_of = None

-----------------------------------------------------------------------------
(* C1 *)

\* C1: every task reachable from the roots is expanded exactly once and no
\* other task is: when the traversal has ended the processed set is the
\* reachable set; a step of the loop adds at most the popped identity to the
\* processed set, and only if it was not processed; popping a processed
\* identity changes neither nodes nor edges; the diamond built from root A
\* has one node D, one edge B->D and one edge C->D.
C1_EachReachableTaskExpandedOnce ==
    /\ [](Traversed => processed = ReachableFrom(Roots))
    /\ [][pc = "loop" =>
            LET name == Head(to_process) IN
            /\ processed \subseteq processed'
            /\ processed' \ processed \subseteq {name}
            /\ name \in processed =>
                 /\ processed' = processed
                 /\ nodes' = nodes /\ edges' = edges /\ seen' = seen]_vars
    /\ []((Traversed /\ Diamond /\ pos_args = <<<<"A">>>>) =>
            /\ "D" \in DOMAIN nodes
            /\ Cardinality(EdgesFromTo("B", "D")) = 1
            /\ Cardinality(EdgesFromTo("C", "D")) = 1
            /\ Len(edges) = 4)

\* the diamond has been traversed from root A: D was enqueued by B and by C
C1_Witness ==
    /\ pc = "emit" /\ Diamond /\ pos_args = <<<<"A">>>>
    /\ processed = {"A", "B", "C", "D"}

-----------------------------------------------------------------------------
(* C2 *)

\* the parent of a sub-task, the task itself otherwise
ParentOrSelf(t) == IF tasks[t].subtask_of # None THEN tasks[t].subtask_of ELSE t

\* C2: with show_subtasks disabled no node of the graph is a sub-task, no edge
\* starts or ends at a sub-task, and every entry of a processed task whose
\* ends collapse to different nodes has an edge from the parent (or the task
\* itself when top-level) of the one to that of the other.
C2_SubtasksCollapsed ==
    (pc # "init" /\ ~subtasks) =>
        /\ \A n \in DOMAIN nodes : ~IsSubtask(n)
        /\ \A i \in DOMAIN edges : ~IsSubtask(edges[i].source) /\ ~IsSubtask(edges[i].sink)
        /\ error = "" =>
             \A r \in Relationships :
                 (Target(r) \in DOMAIN tasks /\ ParentOrSelf(r[1]) # ParentOrSelf(Target(r)))
                 => EdgesFromTo(ParentOrSelf(r[1]), ParentOrSelf(Target(r))) # {}

\* a collapsed run has drawn an edge from a sub-task's entry and an edge that
\* points at a sub-task
C2_Witness ==
    /\ pc = "emit" /\ ~subtasks
    /\ \E r \in DrawnRelationships : IsSubtask(r[1])
    /\ \E r \in DrawnRelationships : IsSubtask(Target(r))

-----------------------------------------------------------------------------
(* C3 *)

\* C3: at every point of a build the graph holds at most one edge for each
\* ordered pair of node identities.
C3_OneEdgePerPair ==
    \A i, j \in DOMAIN edges :
        (edges[i].source = edges[j].source /\ edges[i].sink = edges[j].sink) => i = j

\* two relationships of processed tasks (a repeated entry, a setup and a hard
\* dependency, or entries of two collapsed sub-tasks) resolve to one pair
C3_Witness ==
    /\ pc = "emit"
    /\ \E r1, r2 \in DrawnRelationships :
          /\ r1 # r2
          /\ Resolved(r1[1]) = Resolved(r2[1])
          /\ Resolved(Target(r1)) = Resolved(Target(r2))
          /\ Cardinality(EdgesFromTo(Resolved(r1[1]), Resolved(Target(r1)))) = 1

-----------------------------------------------------------------------------
(* C4 *)

\* C4: no edge and no seen pair has the same source and sink, and an entry
\* whose ends resolve to one node leaves no trace in the graph: every node is
\* a processed task that is shown or an end of an edge.
C4_NoSelfLoop ==
    /\ \A i \in DOMAIN edges : edges[i].source # edges[i].sink
    /\ \A p \in seen : p[1] # p[2]
    /\ \A n \in DOMAIN nodes :
          \/ n \in processed /\ (subtasks \/ ~IsSubtask(n))
          \/ \E i \in DOMAIN edges : edges[i].source = n \/ edges[i].sink = n

\* the processed tasks include one that depends on itself, a group with an
\* entry for its own collapsed sub-task, and a sub-task with an entry for a
\* sub-task of the same collapsed group
C4_Witness ==
    /\ pc = "emit"
    /\ \E r \in Relationships : Target(r) = r[1]
    /\ \E r \in Relationships :
          ~subtasks /\ Target(r) \in DOMAIN tasks /\ tasks[Target(r)].subtask_of = r[1]
    /\ \E r \in Relationships :
          /\ ~subtasks /\ Target(r) \in DOMAIN tasks /\ Target(r) # r[1]
          /\ tasks[r[1]].subtask_of # None
          /\ tasks[Target(r)].subtask_of = tasks[r[1]].subtask_of

-----------------------------------------------------------------------------
(* C5 *)

\* some task of the registry reaches itself through the entries
Cyclic == \E t \in DOMAIN tasks : t \in ReachableFrom(Entries(t))

\* C5: when every identity the roots and the tasks refer to exists, the
\* traversal loop terminates: a run in the loop reaches the emission step,
\* with the work queue empty.
C5_TraversalTerminates ==
    (pc = "loop" /\ AllExist) ~> (pc = "emit" /\ to_process = <<>>)

\* the emission step is reached over a registry with a dependency cycle and a
\* queue that held a processed identity
C5_Witness ==
    /\ pc = "emit" /\ to_process = <<>> /\ AllExist /\ Cyclic
    /\ \E t \in processed : t \in ReachableFrom(Entries(t))

-----------------------------------------------------------------------------
(* C6 *)

\* C6: in a run that has not failed, every setup_tasks entry of a processed
\* task whose ends resolve to different nodes is drawn as an edge with
\* arrowhead "empty", and every such task_dep entry as an edge with the solid
\* arrowhead "".
C6_ArrowheadPerEntry ==
    error = "" =>
        \A r \in DrawnRelationships :
            \E i \in EdgesFromTo(Resolved(r[1]), Resolved(Target(r))) :
                edges[i].arrowhead = (IF r[2] = "setup" THEN "empty" ELSE "")

-----------------------------------------------------------------------------
(* C7 *)

\* the edge with the ends of e exchanged and its other attributes kept
Flipped(e) == [source |-> e.sink, sink |-> e.source,
               arrowhead |-> e.arrowhead, label |-> e.label]

\* C7: in reverse mode the graph written has the nodes of the accumulated
\* graph and exactly its edges with source and sink exchanged, arrowhead and
\* label kept; reversing the written graph again gives the original edge set;
\* the emission leaves the accumulated graph as it was.
C7_ReverseFlipsEveryEdge ==
    /\ []((pc = "done" /\ reverse) =>
            LET w == written[1].graph IN
            /\ w.nodes = nodes
            /\ Len(w.edges) = Len(edges)
            /\ Range(w.edges) = {Flipped(edges[i]) : i \in DOMAIN edges}
            /\ Range(graph_reverse(w).edges) = Range(edges))
    /\ [][pc = "emit" => (nodes' = nodes /\ edges' = edges /\ rankdir' = rankdir)]_vars

\* a graph with a labelled edge, a setup edge and a hard-dependency edge has
\* been written reversed
C7_Witness ==
    /\ pc = "done" /\ reverse
    /\ \E i \in DOMAIN edges : edges[i].label # <<>>
    /\ \E i, j \in DOMAIN edges : edges[i].arrowhead = "empty" /\ edges[j].arrowhead = ""
    /\ \E i \in DOMAIN edges : EdgesFromTo(edges[i].sink, edges[i].source) = {}

-----------------------------------------------------------------------------
(* C8 *)

\* the names that are the final component of some path of a collection
FinalComponents(collection) ==
    {n \in {fa, fab, fb, dd} : \E i \in DOMAIN collection :
        collection[i] # <<>> /\ collection[i][Len(collection[i])] = n}

\* the names found both among the file_dep of src and the targets of sink;
\* none when a task or a collection is missing
Connecting(src, sink) ==
    IF src \notin DOMAIN tasks \/ sink \notin DOMAIN tasks THEN {}
    ELSE IF "file_dep" \notin DOMAIN tasks[src] \/ "targets" \notin DOMAIN tasks[sink] THEN {}
    ELSE FinalComponents(tasks[src].file_dep) \cap FinalComponents(tasks[sink].targets)

\* C8: the result of get_connecting_files holds exactly the connecting names,
\* each once, in ascending order: it is determined by the two sets of names,
\* and is empty when a task is absent or a collection is missing or empty.
C8_ConnectingFilesSorted ==
    connecting # <<>> =>
        LET c == connecting[1] IN
        /\ Range(c.result) = Connecting(c.src, c.sink)
        /\ \A i, j \in DOMAIN c.result : i < j => StrLess(c.result[i], c.result[j])

\* two names connect and the file_dep lists them in descending order behind
\* different directories
C8_Witness ==
    /\ connecting # <<>>
    /\ connecting[1].src = "A" /\ connecting[1].sink = "B"
    /\ connecting[1].result = <<fa, fb>>
    /\ tasks["A"].file_dep = <<<<dd, fb>>, <<fa>>>>
    /\ tasks["B"].targets = <<<<fb>>, <<fa>>>>

-----------------------------------------------------------------------------
(* C9 *)

\* C9: once the emission step has run, the file written is named by the
\* outfile given, and without an outfile "<root>.dot" for exactly one root
\* and "tasks.dot" for an empty root list, for no root list (None) and for
\* two or more roots.
C9_DestinationName ==
    (pc = "done" \/ error = TypeError) =>
        /\ Len(written) = 1
        /\ written[1].outfile =
              IF outfile # None THEN outfile
              ELSE IF pos_args # <<>> /\ Len(pos_args[1]) = 1
                   THEN pos_args[1][1] \o ".dot"
                   ELSE "tasks.dot"

-----------------------------------------------------------------------------
(* C10 *)

\* C10: in whole-graph mode, once the traversal has ended, every task of the
\* registry has been expanded and the nodes are exactly the tasks when
\* sub-tasks are shown, exactly the top-level tasks otherwise; a registry
\* without setup_tasks and task_dep entries gives one node per task and no edge.
C10_WholeGraphNodes ==
    (Traversed /\ WholeGraphMode) =>
        /\ processed = DOMAIN tasks
        /\ DOMAIN nodes = IF subtasks THEN DOMAIN tasks
                          ELSE {t \in DOMAIN tasks : tasks[t].subtask_of = None}
        /\ (\A t \in DOMAIN tasks : Entries(t) = {}) =>
              /\ DOMAIN nodes = DOMAIN tasks
              /\ edges = <<>>

\* whole-graph runs have ended over a registry with sub-tasks hidden
C10_Witness ==
    /\ pc = "emit" /\ WholeGraphMode /\ ~subtasks
    /\ \E t \in DOMAIN tasks : tasks[t].subtask_of # None
    /\ edges # <<>>

-----------------------------------------------------------------------------
(* C11 *)

\* the node a name stands for, also for a name the registry does not hold
ResolvedName(n) == IF n \in DOMAIN tasks THEN Resolved(n) ELSE n

\* the names that can be a node
NodeNames == DOMAIN tasks \cup {Absent}

\* the text before the first separator of s, and the text after it
RECURSIVE FirstLine(_, _)
FirstLine(s, i) ==
    IF i > Len(s) THEN [line |-> s, more |-> FALSE, rest |-> <<>>]
    ELSE IF i < Len(s) /\ s[i] = sep[1] /\ s[i + 1] = sep[2]
    THEN [line |-> SubSeq(s, 1, i - 1), more |-> TRUE, rest |-> SubSeq(s, i + 2, Len(s))]
    ELSE FirstLine(s, i + 1)

\* the pieces of s between the separators
RECURSIVE Split(_)
Split(s) ==
    LET f == FirstLine(s, 1)
    IN  IF f.more THEN <<f.line>> \o Split(f.rest) ELSE <<f.line>>

\* the lines of a label; an edge without a label has none
LabelLines(label) == IF label = <<>> THEN <<>> ELSE Split(label)

\* the label of the edge from a to b among es, the empty string without one
LabelIn(es, a, b) ==
    IF \E i \in DOMAIN es : es[i].source = a /\ es[i].sink = b
    THEN es[CHOOSE i \in DOMAIN es : es[i].source = a /\ es[i].sink = b].label
    ELSE <<>>

\* the entries of a task in the order the traversal meets them
EntriesInOrder(t) == tasks[t].setup_tasks \o tasks[t].task_dep

\* the connecting file names, in ascending order, of the entries of t from
\* position i on that resolve to the pair (a, b), in the order of the entries
RECURSIVE LinesFrom(_, _, _, _)
LinesFrom(t, i, a, b) ==
    IF i > Len(EntriesInOrder(t)) THEN <<>>
    ELSE LET d == EntriesInOrder(t)[i]
         IN  (IF ResolvedName(t) = a /\ ResolvedName(d) = b /\ a # b
              THEN sorted(Connecting(t, d)) ELSE <<>>)
             \o LinesFrom(t, i + 1, a, b)

\* the relationships of processed tasks that resolve to the pair (a, b)
ResolvingTo(a, b) ==
    {r \in Relationships : ResolvedName(r[1]) = a /\ ResolvedName(Target(r)) = b}

\* C11: the graph of a run starts without edges; every step of the loop that
\* does not fail leaves, for every pair (a, b), the lines of the label of its
\* edge extended by the connecting file names of the entries of the expanded
\* task that resolve to (a, b), in the order of the entries (setup_tasks
\* before task_dep), with no empty line, and a task popped again adds none; in
\* a run that has not failed an edge is without label exactly when no
\* relationship resolving to its pair has a connecting file.
C11_LabelInEncounterOrder ==
    /\ [](processed = {} => edges = <<>>)
    /\ [][(pc = "loop" /\ error' = "") =>
            LET t == Head(to_process) IN
            \A a, b \in NodeNames :
                LabelLines(LabelIn(edges', a, b)) =
                    LabelLines(LabelIn(edges, a, b))
                    \o (IF t \in processed THEN <<>> ELSE LinesFrom(t, 1, a, b))]_vars
    /\ [](error = "" =>
            \A i \in DOMAIN edges :
                (edges[i].label = <<>>) <=>
                    \A r \in ResolvingTo(edges[i].source, edges[i].sink) :
                        Connecting(r[1], Target(r)) = {})

\* collapsed runs have ended with the edge from A to C labelled "a", "a", "b"
\* from two entries of the sub-task B, and with the edge from C to A, created
\* without label by the entry of C, labelled "a" by the later setup entry of
\* the sub-task D
C11_Witness ==
    /\ pc = "emit" /\ ~subtasks
    /\ tasks["B"].subtask_of = "A" /\ tasks["D"].subtask_of = "C"
    /\ tasks["B"].task_dep = <<"C", "D">>
    /\ tasks["C"].task_dep = <<"A", "D">> /\ tasks["D"].setup_tasks = <<"A">>
    /\ Connecting("C", "A") = {} /\ Connecting("D", "A") = {fa}
    /\ {"C", "D"} \subseteq processed
    /\ LabelIn(edges, "C", "A") = fa
    /\ LabelLines(LabelIn(edges, "A", "C")) = <<fa, fa, fb>>

-----------------------------------------------------------------------------
(* C12 *)

\* C12: the lines of the label of every edge are pairwise different: no
\* connecting file name occurs twice in a label, also when relationships that
\* share a connecting file are merged into the edge.
C12_LabelHasNoDuplicate ==
    \A i \in DOMAIN edges :
        LET lines == LabelLines(edges[i].label)
        IN  \A j, k \in DOMAIN lines : lines[j] = lines[k] => j = k

-----------------------------------------------------------------------------
(* C13 *)

\* C13: when the traversal has ended, a node of the graph carries
\* peripheries "2" exactly when its task has has_subtask set, whatever the
\* roots and the show_subtasks setting, also for a node created as the end
\* of an edge.
C13_GroupNodesDoubleBorder ==
    Traversed =>
        \A n \in DOMAIN nodes \cap DOMAIN tasks :
            (nodes[n].peripheries = "2") <=> tasks[n].has_subtask

-----------------------------------------------------------------------------
(* C14 *)

\* C14: a step of the loop that pops an identity the registry does not hold
\* ends the run in a KeyError with nothing written; a run that has failed
\* with a KeyError has written and printed nothing; a written file implies
\* that the queue had emptied and the run is done without an error.
C14_MissingTaskFailsWithoutWrite ==
    /\ [][(pc = "loop" /\ Head(to_process) \notin DOMAIN tasks) =>
            (pc' = "failed" /\ error' = KeyError /\ written' = <<>>)]_vars
    /\ [](error = KeyError => (pc = "failed" /\ written = <<>> /\ stdout = <<>>))
    /\ [](written # <<>> => (pc = "done" /\ to_process = <<>> /\ error = ""))

\* with sub-tasks shown, where only the dequeue looks a name up, a run has
\* failed on an absent identity after it had drawn the edge that points at it
C14_Witness ==
    /\ pc = "failed" /\ error = KeyError /\ subtasks
    /\ \E i \in DOMAIN edges : edges[i].sink \notin DOMAIN tasks
    /\ processed # {} /\ written = <<>>

-----------------------------------------------------------------------------
(* C15 *)

\* C15: in every state of a run, node applied to an identity the registry
\* does not hold fails with a KeyError, with sub-tasks shown and with
\* sub-tasks hidden; applied to a task of the registry it gives the identity
\* when sub-tasks are shown, and otherwise the subtask_of of the task if set,
\* else the identity.
C15_NodeFailsOnAbsentIdentity ==
    \A n \in NodeNames :
        node(n) = IF n \notin DOMAIN tasks THEN KeyError
                  ELSE IF subtasks THEN n
                  ELSE IF tasks[n].subtask_of # None THEN tasks[n].subtask_of
                  ELSE n

-----------------------------------------------------------------------------
(* C16 *)

\* s is an initial part of t
IsPrefix(s, t) == Len(s) <= Len(t) /\ SubSeq(t, 1, Len(s)) = s

\* C16: before the first task is expanded the graph has no node and no edge
\* and the seen pairs are empty; no step of a run removes a node, a double
\* border, an edge, a seen pair or a processed name; every edge keeps its
\* source, its sink and its arrowhead, and its label changes only by text
\* appended to it, behind a separator when the edge had a label.
C16_GraphGrowsMonotonically ==
    /\ [](processed = {} => (nodes = <<>> /\ edges = <<>> /\ seen = {}))
    /\ [][/\ DOMAIN nodes \subseteq DOMAIN nodes'
          /\ \A n \in DOMAIN nodes :
                nodes[n].peripheries = "2" => nodes'[n].peripheries = "2"
          /\ seen \subseteq seen'
          /\ processed \subseteq processed'
          /\ Len(edges) <= Len(edges')
          /\ \A i \in DOMAIN edges :
                /\ edges'[i].source = edges[i].source
                /\ edges'[i].sink = edges[i].sink
                /\ edges'[i].arrowhead = edges[i].arrowhead
                /\ IsPrefix(edges[i].label, edges'[i].label)
                /\ (edges[i].label # <<>> /\ edges'[i].label # edges[i].label) =>
                      IsPrefix(edges[i].label \o sep, edges'[i].label)]_vars

\* a traversal of at least three tasks has ended with several edges, one of
\* them with a label that was extended by a different name, and with a node
\* that got its double border
C16_Witness ==
    /\ pc = "emit"
    /\ Cardinality(processed) >= 3 /\ Len(edges) >= 2
    /\ \E i \in DOMAIN edges :
          LET lines == LabelLines(edges[i].label)
          IN  Len(lines) >= 2 /\ lines[1] # lines[2]
    /\ \E n \in DOMAIN nodes : nodes[n].peripheries = "2"

-----------------------------------------------------------------------------
(* C17 *)

\* the pairs of source and sink of the edges of the graph
EdgePairs == {<<edges[i].source, edges[i].sink>> : i \in DOMAIN edges}

\* C17: at every point of a run the pairs of the edges of the graph are
\* exactly the seen pairs, and every such pair is the pair of nodes that a
\* setup_tasks or task_dep entry of a processed task resolves to.
C17_SeenMirrorsEdges ==
    /\ EdgePairs = seen
    /\ \A p \in seen : ResolvingTo(p[1], p[2]) # {}

\* a collapsed run has ended with several edges, one of them drawn from the
\* entry of a sub-task, while an entry of a processed task was not drawn
C17_Witness ==
    /\ pc = "emit" /\ ~subtasks
    /\ Cardinality(seen) >= 2
    /\ \E r \in DrawnRelationships :
          IsSubtask(r[1]) /\ <<Resolved(r[1]), Resolved(Target(r))>> \in EdgePairs
    /\ Relationships \ DrawnRelationships # {}

====
